---- MODULE Spec2Model ----
(***************************************************************************)
(* Model of assets/js/page_change.js: the client-side navigator that       *)
(* fetches page/post fragments with $.get, swaps the #page-wrapper region   *)
(* that follows <nav>, and records navigation entries with                  *)
(* window.history.pushState, replayed by window.onpopstate.                 *)
(***************************************************************************)
EXTENDS Integers, Sequences, FiniteSets, TLC

\* ---------------------------------------------------------------- bounds
\* Largest number of entries pushed on top of the initial history entry.
MaxHist == 2
\* Largest number of $.get requests in flight at once.
MaxInFlight == 2

\* ---------------------------------------------------------------- inputs
\* Arguments the link handlers pass to openPage / openPost.
PageNames == {"", "home", "about"}
PostPaths == {"/posts/x", "/about/"}

VARIABLES
    history,    \* session history: sequence of [state, url]
    cur,        \* index of the current session history entry
    requested,  \* per history entry, the path requested by the call that pushed it
    inflight,   \* $.get requests issued and not yet completed, in issue order
    doc,        \* the document: sequence of elements [tag, id, body]
    delivered,  \* body of the most recently completed successful response
    last,       \* the operation that ran last
    nav         \* the latest navigation: what made it, and the fate of its request

vars == <<history, cur, requested, inflight, doc, delivered, last, nav>>

\* ---------------------------------------------------------------- values
\* history.state of an entry that was not created by pushState.
NullState == [type |-> "null"]
NoPath == ""
NoBody == "none"

Nav == [tag |-> "nav", id |-> "", body |-> ""]
InitialRegion == [tag |-> "div", id |-> "page-wrapper", body |-> "initial"]

\* The fragment the server returns for a path: one #page-wrapper region.
Fragment(path) == [tag |-> "div", id |-> "page-wrapper", body |-> path]

\* ---------------------------------------------------------------- loadPage
\* page_change.js:2-4, the reassignment of loadPage's own parameter.
NormalizedName(page_name) == IF page_name = "" THEN "home" ELSE page_name

\* Variant of PagePath: the trailing slash is left out.
PagePath_NoTrailingSlash(page_name) == "/" \o NormalizedName(page_name)

\* page_change.js:5, the path loadPage hands to $.get.
PagePath(page_name) == "/" \o NormalizedName(page_name) \o "/"

\* Variant of PostPath: the post path is decorated like a page path.
PostPath_TrailingSlash(post_path) == post_path \o "/"

\* page_change.js:32, the path loadPost hands to $.get.
PostPath(post_path) == post_path

\* ---------------------------------------------------------------- DOM
RECURSIVE RemoveFirst(_, _)
\* $("#id").remove(): an id selector matches the first element with that id.
RemoveFirst(d, id) ==
    IF d = <<>> THEN <<>>
    ELSE IF Head(d).id = id THEN Tail(d)
    ELSE <<Head(d)>> \o RemoveFirst(Tail(d), id)

RECURSIVE After(_, _, _)
\* $(tag).after(data): data is inserted after every element matching tag.
After(d, tag, data) ==
    IF d = <<>> THEN <<>>
    ELSE IF Head(d).tag = tag
         THEN <<Head(d), data>> \o After(Tail(d), tag, data)
         ELSE <<Head(d)>> \o After(Tail(d), tag, data)

\* Variant of Callback: the old region is not removed.
Callback_NoRemove(d, data) == After(d, "nav", data)

\* Variant of Callback: data is inserted first, then #page-wrapper is removed;
\* the first match in document order is then the region just inserted.
Callback_InsertFirst(d, data) == RemoveFirst(After(d, "nav", data), "page-wrapper")

\* The success callback of $.get: remove the old region, then insert data.
\* loadPage (lines 6-10) and loadPost (lines 33-37) register the same callback.
Callback(d, data) == After(RemoveFirst(d, "page-wrapper"), "nav", data)

\* Variant of RunsCallback: the callback is registered for every outcome.
RunsCallback_Always(ok) == TRUE

\* Variant of RunsCallback: the callback is attached to the failure path.
RunsCallback_Inverted(ok) == ~ok

\* Whether $.get runs the success callback for a response.
RunsCallback(ok) == ok

\* The Content Regions of a document.
Regions(d) == SelectSeq(d, LAMBDA e : e.id = "page-wrapper")

\* ---------------------------------------------------------------- history
\* Variant of PageEntry: the normalized name is recorded.
PageEntry_Normalized(page_name) ==
    [state |-> [type |-> "page", page_name |-> NormalizedName(page_name)],
     url   |-> "/" \o page_name]

\* Variant of PageEntry: the requested path is recorded as the URL.
PageEntry_UrlIsPath(page_name) ==
    [state |-> [type |-> "page", page_name |-> page_name],
     url   |-> PagePath(page_name)]

\* page_change.js:18, the state object and URL openPage pushes.
PageEntry(page_name) ==
    [state |-> [type |-> "page", page_name |-> page_name],
     url   |-> "/" \o page_name]

\* Variant of PostEntry: the state also carries a page_name field.
PostEntry_BothFields(post_path) ==
    [state |-> [type |-> "post", page_name |-> "", post_path |-> post_path],
     url   |-> post_path]

\* page_change.js:45, the state object and URL openPost pushes.
PostEntry(post_path) ==
    [state |-> [type |-> "post", post_path |-> post_path],
     url   |-> post_path]

\* history.pushState: drop the forward entries, append, make it current.
PushState(h, c, entry) == SubSeq(h, 1, c) \o <<entry>>

\* Variant of PopPath: the page path is rebuilt without normalizing the name.
PopPath_NoNormalize(state) ==
    IF state.type = "page" THEN "/" \o state.page_name \o "/"
    ELSE IF state.type = "post" THEN PostPath(state.post_path)
    ELSE NoPath

\* page_change.js:23-28, the load the restoration handler dispatches to.
PopPath(state) ==
    IF state.type = "page" THEN PagePath(state.page_name)
    ELSE IF state.type = "post" THEN PostPath(state.post_path)
    ELSE NoPath

\* Variant of PopThrows: a null state is dispatched like a stored one.
PopThrows_Never(state) == FALSE

\* ps.state.type on a null state raises a TypeError.
PopThrows(state) == state = NullState

Request(path) == [path |-> path]

\* ---------------------------------------------------------------- Init
Init ==
    /\ history = <<[state |-> NullState, url |-> "/"]>>
    /\ cur = 1
    /\ requested = <<NoPath>>
    /\ inflight = <<>>
    /\ doc = <<Nav, InitialRegion>>
    /\ delivered = NoBody
    /\ last = [op |-> "init", arg |-> "", ok |-> TRUE, threw |-> FALSE]
    /\ nav = [by |-> "none", load |-> "none"]

\* ---------------------------------------------------------------- actions
\* Variant of openPage: loadPage is called twice.
openPage_LoadsTwice(page_name) ==
    /\ cur <= MaxHist
    /\ Len(inflight) < MaxInFlight
    /\ inflight' = inflight \o <<Request(PagePath(page_name)), Request(PagePath(page_name))>>
    /\ history' = PushState(history, cur, PageEntry(page_name))
    /\ requested' = SubSeq(requested, 1, cur) \o <<PagePath(page_name)>>
    /\ cur' = cur + 1
    /\ last' = [op |-> "openPage", arg |-> page_name, ok |-> TRUE, threw |-> FALSE]
    /\ nav' = [by |-> "open", load |-> "pending"]
    /\ UNCHANGED <<doc, delivered>>

openPage(page_name) ==
    /\ cur <= MaxHist
    /\ Len(inflight) < MaxInFlight
    /\ inflight' = Append(inflight, Request(PagePath(page_name)))
    /\ history' = PushState(history, cur, PageEntry(page_name))
    /\ requested' = SubSeq(requested, 1, cur) \o <<PagePath(page_name)>>
    /\ cur' = cur + 1
    /\ last' = [op |-> "openPage", arg |-> page_name, ok |-> TRUE, threw |-> FALSE]
    /\ nav' = [by |-> "open", load |-> "pending"]
    /\ UNCHANGED <<doc, delivered>>

\* Variant of openPost: the post is loaded but no entry is pushed.
openPost_NoPush(post_path) ==
    /\ cur <= MaxHist
    /\ Len(inflight) < MaxInFlight
    /\ inflight' = Append(inflight, Request(PostPath(post_path)))
    /\ last' = [op |-> "openPost", arg |-> post_path, ok |-> TRUE, threw |-> FALSE]
    /\ nav' = [by |-> "open", load |-> "pending"]
    /\ UNCHANGED <<history, cur, requested, doc, delivered>>

openPost(post_path) ==
    /\ cur <= MaxHist
    /\ Len(inflight) < MaxInFlight
    /\ inflight' = Append(inflight, Request(PostPath(post_path)))
    /\ history' = PushState(history, cur, PostEntry(post_path))
    /\ requested' = SubSeq(requested, 1, cur) \o <<PostPath(post_path)>>
    /\ cur' = cur + 1
    /\ last' = [op |-> "openPost", arg |-> post_path, ok |-> TRUE, threw |-> FALSE]
    /\ nav' = [by |-> "open", load |-> "pending"]
    /\ UNCHANGED <<doc, delivered>>

\* Variant of onpopstate: the handler re-pushes the entry it restores.
onpopstate_Pushes(i) ==
    /\ i \in 1..Len(history)
    /\ i # cur
    /\ IF PopThrows(history[i].state)
       THEN /\ inflight' = inflight
            /\ cur' = i
            /\ UNCHANGED <<history, requested>>
            /\ last' = [op |-> "onpopstate", arg |-> "", ok |-> FALSE, threw |-> TRUE]
            /\ nav' = [by |-> "restore", load |-> "none"]
       ELSE /\ Len(inflight) < MaxInFlight
            /\ i <= MaxHist
            /\ inflight' = Append(inflight, Request(PopPath(history[i].state)))
            /\ history' = PushState(history, i, history[i])
            /\ requested' = SubSeq(requested, 1, i) \o <<requested[i]>>
            /\ cur' = i + 1
            /\ last' = [op |-> "onpopstate", arg |-> PopPath(history[i].state),
                        ok |-> TRUE, threw |-> FALSE]
            /\ nav' = [by |-> "restore", load |-> "pending"]
    /\ UNCHANGED <<doc, delivered>>

\* Variant of onpopstate: the handler restores nothing.
onpopstate_NoLoad(i) ==
    /\ i \in 1..Len(history)
    /\ i # cur
    /\ cur' = i
    /\ last' = [op |-> "onpopstate", arg |-> "", ok |-> TRUE, threw |-> FALSE]
    /\ nav' = [by |-> "restore", load |-> "none"]
    /\ UNCHANGED <<history, requested, inflight, doc, delivered>>

\* The user moves to entry i; the browser fires popstate with its state.
onpopstate(i) ==
    /\ i \in 1..Len(history)
    /\ i # cur
    /\ cur' = i
    /\ IF PopThrows(history[i].state)
       THEN /\ inflight' = inflight
            /\ last' = [op |-> "onpopstate", arg |-> "", ok |-> FALSE, threw |-> TRUE]
            /\ nav' = [by |-> "restore", load |-> "none"]
       ELSE /\ Len(inflight) < MaxInFlight
            /\ inflight' = Append(inflight, Request(PopPath(history[i].state)))
            /\ last' = [op |-> "onpopstate", arg |-> PopPath(history[i].state),
                        ok |-> TRUE, threw |-> FALSE]
            /\ nav' = [by |-> "restore", load |-> "pending"]
    /\ UNCHANGED <<history, requested, doc, delivered>>

\* The latest navigation's request is the newest one in flight; when it is
\* the one that completes, its fate is recorded.
Settle(n, newest, ok) ==
    IF n.load = "pending" /\ newest
    THEN [n EXCEPT !.load = IF ok THEN "loaded" ELSE "failed"]
    ELSE n

\* Variant of Respond: only the newest request's callback takes effect.
Respond_DropsStale(k, ok) ==
    /\ k \in 1..Len(inflight)
    /\ inflight' = SubSeq(inflight, 1, k - 1) \o SubSeq(inflight, k + 1, Len(inflight))
    /\ IF RunsCallback(ok) /\ k = Len(inflight)
       THEN /\ doc' = Callback(doc, Fragment(inflight[k].path))
            /\ delivered' = Fragment(inflight[k].path).body
       ELSE UNCHANGED <<doc, delivered>>
    /\ last' = [op |-> "response", arg |-> inflight[k].path, ok |-> ok, threw |-> FALSE]
    /\ nav' = Settle(nav, k = Len(inflight), ok)
    /\ UNCHANGED <<history, cur, requested>>

\* The k-th request in flight completes, successfully or not.
Respond(k, ok) ==
    /\ k \in 1..Len(inflight)
    /\ inflight' = SubSeq(inflight, 1, k - 1) \o SubSeq(inflight, k + 1, Len(inflight))
    /\ IF RunsCallback(ok)
       THEN /\ doc' = Callback(doc, Fragment(inflight[k].path))
            /\ delivered' = Fragment(inflight[k].path).body
       ELSE UNCHANGED <<doc, delivered>>
    /\ last' = [op |-> "response", arg |-> inflight[k].path, ok |-> ok, threw |-> FALSE]
    /\ nav' = Settle(nav, k = Len(inflight), ok)
    /\ UNCHANGED <<history, cur, requested>>

Next ==
    \/ \E page_name \in PageNames : openPage(page_name)
    \/ \E post_path \in PostPaths : openPost(post_path)
    \/ \E i \in 1..(MaxHist + 1) : onpopstate(i)
    \/ \E k \in 1..MaxInFlight, ok \in BOOLEAN : Respond(k, ok)

Spec == Init /\ [][Next]_vars

\* Every request is eventually answered, with success or with failure.
Fairness == WF_vars(\E k \in 1..MaxInFlight, ok \in BOOLEAN : Respond(k, ok))

LiveSpec == Init /\ [][Next]_vars /\ Fairness

\* The runs in which every fetch succeeds and responses arrive in the order
\* their requests were issued.
OrderedNext ==
    \/ \E page_name \in PageNames : openPage(page_name)
    \/ \E post_path \in PostPaths : openPost(post_path)
    \/ \E i \in 1..(MaxHist + 1) : onpopstate(i)
    \/ Respond(1, TRUE)

OrderedSpec == Init /\ [][OrderedNext]_vars

\* ---------------------------------------------------------------- helpers
\* The current session history entry.
CurEntry == history[cur]
\* The request issued most recently among those still in flight.
NewestRequest == inflight[Len(inflight)]

\* ================================================================ claims

\* C1: for a non-empty page_name, openPage(page_name) requests exactly
\* "/" + page_name + "/" and pushes, as the new current entry, a state
\* tagged "page" that carries that same page_name.
C1_OpenPageRequestsAndPushes ==
    (last.op = "openPage" /\ last.arg # "") =>
        /\ Len(inflight) > 0
        /\ NewestRequest.path = "/" \o last.arg \o "/"
        /\ cur = Len(history)
        /\ CurEntry.state.type = "page"
        /\ CurEntry.state.page_name = last.arg

C1_Witness ==
    /\ last.op = "openPage"
    /\ last.arg = "about"
    /\ NewestRequest.path = "/about/"

\* C2 (as claimed): openPage("") records the same history entry as
\* openPage("home"), i.e. an entry carrying page_name "home", and requests
\* the same path.
C2_EmptyRecordedAsHome ==
    (last.op = "openPage" /\ last.arg = "") =>
        /\ NewestRequest.path = "/home/"
        /\ CurEntry.state = [type |-> "page", page_name |-> "home"]

\* C2 (amended): openPage("") requests the same path as openPage("home"),
\* "/home/", but the entry it pushes carries the name as passed, "", with
\* URL "/": only loadPage's own parameter is normalized.
C2_EmptyRequestsHomeRecordsEmpty ==
    (last.op = "openPage" /\ last.arg \in {"", "home"}) =>
        /\ NewestRequest.path = "/home/"
        /\ CurEntry.state = [type |-> "page", page_name |-> last.arg]
        /\ CurEntry.url = "/" \o last.arg

C2_Witness ==
    /\ last.op = "openPage"
    /\ last.arg = ""
    /\ CurEntry.state.page_name = ""
    /\ NewestRequest.path = "/home/"

\* C3: openPost(p) requests exactly p and pushes, as the new current entry,
\* a state tagged "post" carrying p, with p as the entry's URL.
C3_OpenPostRequestsAndPushes ==
    last.op = "openPost" =>
        /\ Len(inflight) > 0
        /\ NewestRequest.path = last.arg
        /\ cur = Len(history)
        /\ CurEntry.state.type = "post"
        /\ CurEntry.state.post_path = last.arg
        /\ CurEntry.url = last.arg

C3_Witness ==
    /\ last.op = "openPost"
    /\ last.arg = "/posts/x"
    /\ NewestRequest.path = "/posts/x"

\* C4: the document always holds exactly one Content Region, and once a
\* response has completed successfully the region's content is the body of
\* the most recently completed successful response.
C4_OneRegionLastResponseWins ==
    /\ Len(Regions(doc)) = 1
    /\ delivered # NoBody => Regions(doc)[1].body = delivered

\* Two successive responses with another request still in flight.
C4_Witness ==
    /\ last.op = "response"
    /\ last.ok
    /\ delivered = "/posts/x"
    /\ Len(inflight) > 0
    /\ NewestRequest.path # "/posts/x"
    /\ Regions(doc)[1].body = "/posts/x"

\* C5: a run of the restoration handler on a stored entry issues one request
\* and leaves the history stack (its length and every entry) unchanged.
C5_RestoreLeavesHistory ==
    [][(last'.op = "onpopstate" /\ ~last'.threw) =>
          /\ history' = history
          /\ Len(inflight') = Len(inflight) + 1]_vars

\* Back after openPage("about") then openPost("/posts/x").
C5_Witness ==
    /\ last.op = "onpopstate"
    /\ Len(history) = 3
    /\ cur = 2
    /\ history[2].state = [type |-> "page", page_name |-> "about"]
    /\ history[3].state = [type |-> "post", post_path |-> "/posts/x"]
    /\ NewestRequest.path = "/about/"

\* C6: a failed response runs no callback: the document is left as it was
\* and nothing is thrown.
C6_FailureLeavesDocument ==
    [][(last'.op = "response" /\ ~last'.ok) =>
          /\ doc' = doc
          /\ delivered' = delivered
          /\ ~last'.threw]_vars

C6_Witness ==
    /\ last.op = "response"
    /\ ~last.ok
    /\ delivered # NoBody
    /\ last.arg # delivered

\* C7 (as claimed): the URL openPage records equals the path it requests.
C7_UrlIsRequestedPath ==
    last.op = "openPage" => CurEntry.url = NewestRequest.path

\* C7 (amended): the URL openPage records is "/" + page_name, the name as
\* passed; for a non-empty name that is the requested path without its
\* trailing slash, and for the empty name it is "/" while the request goes
\* to "/home/".
C7_UrlIsSlashName ==
    last.op = "openPage" =>
        /\ CurEntry.url = "/" \o last.arg
        /\ last.arg # "" => NewestRequest.path = CurEntry.url \o "/"
        /\ last.arg = "" => NewestRequest.path = "/home/"

C7_Witness ==
    /\ last.op = "openPage"
    /\ CurEntry.url = "/about"
    /\ NewestRequest.path = "/about/"

\* C8: restoring a pushed entry requests exactly the path the call that
\* pushed it requested, by the load its tag selects: "/" + name + "/" (the
\* empty name read as "home") for a page entry, the literal path for a post
\* entry.
C8_RestoreReplaysRequest ==
    [][(last'.op = "onpopstate" /\ ~last'.threw) =>
          /\ inflight' = Append(inflight, [path |-> requested[cur']])
          /\ history[cur'].state.type = "post" =>
                requested[cur'] = history[cur'].state.post_path
          /\ history[cur'].state.type = "page" =>
                requested[cur'] =
                    "/" \o (IF history[cur'].state.page_name = "" THEN "home"
                            ELSE history[cur'].state.page_name) \o "/"]_vars

\* Restoring the entry pushed by openPage("").
C8_Witness ==
    /\ last.op = "onpopstate"
    /\ CurEntry.state = [type |-> "page", page_name |-> ""]
    /\ NewestRequest.path = "/home/"
    /\ requested[cur] = "/home/"

\* C9: a call of openPage/openPost issues exactly one request, pushes exactly
\* one entry and replaces nothing itself; a run of the handler on a stored
\* entry issues exactly one request; each request completes once, replacing
\* the region exactly once on success and not at all on failure.
C9_OneRequestOnePushOneReplace ==
    [][/\ last'.op \in {"openPage", "openPost"} =>
            /\ Len(inflight') = Len(inflight) + 1
            /\ SubSeq(inflight', 1, Len(inflight)) = inflight
            /\ Len(history') = cur + 1
            /\ SubSeq(history', 1, cur) = SubSeq(history, 1, cur)
            /\ cur' = cur + 1
            /\ doc' = doc
       /\ (last'.op = "onpopstate" /\ ~last'.threw) =>
            /\ Len(inflight') = Len(inflight) + 1
            /\ SubSeq(inflight', 1, Len(inflight)) = inflight
            /\ doc' = doc
       /\ last'.op = "response" =>
            /\ Len(inflight') = Len(inflight) - 1
            /\ history' = history
            /\ last'.ok => doc' = <<Nav, Fragment(last'.arg)>>
            /\ ~last'.ok => doc' = doc]_vars

\* One call, its single request answered, nothing left in flight.
C9_Witness ==
    /\ last.op = "response"
    /\ last.ok
    /\ inflight = <<>>
    /\ Len(history) = 2
    /\ doc = <<Nav, Fragment(requested[2])>>

\* C10: every pushed entry is a well-formed tagged record: a "page" state
\* has page_name and no post_path, a "post" state has post_path and no
\* page_name.
C10_EntriesWellFormed ==
    \A i \in 1..Len(history) :
        history[i].state # NullState =>
            \/ /\ history[i].state.type = "page"
               /\ DOMAIN history[i].state = {"type", "page_name"}
               /\ history[i].state.page_name \in PageNames
            \/ /\ history[i].state.type = "post"
               /\ DOMAIN history[i].state = {"type", "post_path"}
               /\ history[i].state.post_path \in PostPaths

C10_Witness ==
    /\ Len(history) = 3
    /\ history[2].state.type = "page"
    /\ history[3].state.type = "post"

\* ---------------------------------------------------------------- helpers
NavOps == {"openPage", "openPost", "onpopstate"}

\* The Content Region holds the fragment served at the path the call that
\* pushed the current entry requested.
ShowsCurrent ==
    /\ Len(Regions(doc)) = 1
    /\ Regions(doc)[1].body = requested[cur]

\* C11: a navigation cancels nothing that is in flight, and every successful
\* response installs its own fragment when it arrives, whichever request it
\* answers; so the response of an earlier navigation can arrive last and
\* leave its fragment shown under the later navigation's history entry.
C11_NoCancelArrivalOrder ==
    [][/\ last'.op \in NavOps =>
            /\ Len(inflight') >= Len(inflight)
            /\ SubSeq(inflight', 1, Len(inflight)) = inflight
       /\ (last'.op = "response" /\ last'.ok) =>
            /\ Regions(doc') = <<Fragment(last'.arg)>>
            /\ delivered' = last'.arg]_vars

\* The latest navigation pushed entry 3 and its request has loaded; the
\* response that arrived last answers the request made for entry 2.
C11_Witness ==
    /\ last.op = "response"
    /\ last.ok
    /\ inflight = <<>>
    /\ Len(history) = 3
    /\ cur = 3
    /\ nav = [by |-> "open", load |-> "loaded"]
    /\ requested[2] # requested[3]
    /\ last.arg = requested[2]
    /\ Regions(doc) = <<Fragment(requested[2])>>
    /\ ~ShowsCurrent

\* The latest navigation was a call of openPage/openPost and its request has
\* been answered successfully.
OpenedAndLoaded == nav = [by |-> "open", load |-> "loaded"]

\* C12 (as claimed, the "stays so" part): once the region holds the fragment
\* of the entry pushed by the latest call, it holds it until the next
\* navigation (every navigation changes cur).
C12_StaysUntilNavigation ==
    [][(OpenedAndLoaded /\ ShowsCurrent /\ cur' = cur) => ShowsCurrent']_vars

\* C12 (amended): after a call of openPage/openPost, unless another
\* navigation follows or the request fails, the region eventually holds the
\* fragment served at the path of the pushed entry; it stops holding it only
\* at the next navigation or when the successful response to an earlier
\* request for another path arrives.
C12_EventuallyLoaded ==
    /\ \A c \in 1..(MaxHist + 1) :
          (cur = c /\ nav = [by |-> "open", load |-> "pending"])
              ~> \/ cur # c
                 \/ nav.load = "failed"
                 \/ OpenedAndLoaded /\ ShowsCurrent
    /\ [][(OpenedAndLoaded /\ ShowsCurrent /\ ~ShowsCurrent') =>
              \/ cur' # cur
              \/ /\ last'.op = "response"
                 /\ last'.ok
                 /\ last'.arg # requested[cur]]_vars

C12_Witness ==
    /\ OpenedAndLoaded
    /\ ShowsCurrent
    /\ last.op = "response"
    /\ last.ok
    /\ cur = 2
    /\ requested[2] = "/posts/x"
    /\ inflight = <<>>

\* C13: in a completion callback the old region is removed first, leaving no
\* region, and the response body is then inserted right after nav; the
\* document afterwards holds the new region and not the old one.
C13_RemoveThenInsert ==
    [][(last'.op = "response" /\ last'.ok) =>
          /\ Regions(RemoveFirst(doc, "page-wrapper")) = <<>>
          /\ Len(doc') = 2
          /\ doc'[1] = Nav
          /\ doc'[2] = Fragment(last'.arg)
          /\ doc'[2].body # "initial"]_vars

\* The first callback of a session: the initial region gives way to a fragment.
C13_Witness ==
    /\ last.op = "response"
    /\ last.ok
    /\ last.arg = "/home/"
    /\ Len(history) = 2
    /\ cur = 2
    /\ nav.by = "open"
    /\ doc = <<Nav, Fragment("/home/")>>
    /\ InitialRegion \notin {doc[j] : j \in 1..Len(doc)}

\* C14 (as claimed): a call of openPage/openPost makes the history stack one
\* entry longer than it was.
C14_StackGrowsByOne ==
    [][last'.op \in {"openPage", "openPost"} =>
          Len(history') = Len(history) + 1]_vars

\* C14 (amended): openPage/openPost push their entry at call time, while the
\* request is still unanswered and whatever its outcome: the new entry comes
\* directly after the entry that was current, replaces any forward entries
\* (so the stack grows by one exactly when the call is made from the newest
\* entry) and becomes current; a failing response then changes neither the
\* history nor the document, so after a failed call the new entry is current
\* and the previous content is still shown.
C14_PushAtCallTime ==
    /\ [][last'.op \in {"openPage", "openPost"} =>
              /\ Len(history') = cur + 1
              /\ SubSeq(history', 1, cur) = SubSeq(history, 1, cur)
              /\ cur' = cur + 1
              /\ history'[cur'].state # NullState
              /\ (cur = Len(history)) <=> (Len(history') = Len(history) + 1)
              /\ nav'.load = "pending"
              /\ inflight' = Append(inflight, [path |-> requested'[cur']])
              /\ doc' = doc]_vars
    /\ [][(last'.op = "response" /\ ~last'.ok) =>
              /\ history' = history
              /\ cur' = cur
              /\ doc' = doc]_vars
    /\ [](nav = [by |-> "open", load |-> "failed"] =>
              /\ cur = Len(history)
              /\ CurEntry.state # NullState)

\* openPage/openPost called once, its fetch failed: the pushed entry is
\* current and the initial content is still shown.
C14_Witness ==
    /\ nav = [by |-> "open", load |-> "failed"]
    /\ last.op = "response"
    /\ ~last.ok
    /\ Len(history) = 2
    /\ cur = 2
    /\ CurEntry.state # NullState
    /\ inflight = <<>>
    /\ doc = <<Nav, InitialRegion>>

\* C15: when navigation reaches an entry whose state is null, the handler
\* issues no request, pushes nothing and leaves the document as it was.
C15_NullStateRestoresNothing ==
    [][(last'.op = "onpopstate" /\ history[cur'].state = NullState) =>
          /\ inflight' = inflight
          /\ history' = history
          /\ doc' = doc
          /\ delivered' = delivered
          /\ nav'.load = "none"]_vars

\* Back to the initial entry after one page was loaded: its fragment stays.
C15_Witness ==
    /\ last.op = "onpopstate"
    /\ last.threw
    /\ cur = 1
    /\ CurEntry.state = NullState
    /\ Len(history) = 2
    /\ inflight = <<>>
    /\ doc = <<Nav, Fragment(requested[2])>>

\* C16: when all fetches succeed and responses arrive in issue order, in
\* every state with nothing in flight whose current entry was pushed by
\* openPage/openPost, the region holds the fragment served at the path that
\* entry resolves to.
C16_QuiescentShowsCurrent ==
    (inflight = <<>> /\ CurEntry.state # NullState) =>
        Regions(doc) =
            <<Fragment(IF CurEntry.state.type = "page"
                       THEN "/" \o (IF CurEntry.state.page_name = "" THEN "home"
                                    ELSE CurEntry.state.page_name) \o "/"
                       ELSE CurEntry.state.post_path)>>

\* Quiescent after going back from entry 3 to entry 2.
C16_Witness ==
    /\ inflight = <<>>
    /\ Len(history) = 3
    /\ cur = 2
    /\ nav = [by |-> "restore", load |-> "loaded"]
    /\ requested[2] # requested[3]
    /\ delivered = requested[2]
    /\ ShowsCurrent

====
